---- MODULE Spec2Model ----
(***************************************************************************)
(* Model of stormdb/process.py: the Maxfilter object (cmd attribute,       *)
(* build_maxfilter_cmd, submit_to_isis) and the static method              *)
(* fit_sphere_to_headshape.                                                *)
(*                                                                         *)
(* Units.  Coordinates that the source holds in metres are integers        *)
(* counting centimetres (0.01 m).  Quantities that the source holds in     *)
(* millimetres are integers counting tenths of a millimetre, the           *)
(* resolution of the '{:.1f}' format the origin is written with.           *)
(***************************************************************************)
EXTENDS Integers, Sequences, FiniteSets, TLC

VARIABLES args, ret, pc, cmd, procs, last, bargs, sargs, built

vars == <<args, ret, pc, cmd, procs, last, bargs, sargs, built>>

(***************************************************************************)
(* Bounds                                                                  *)
(***************************************************************************)
\* longest digitisation list drawn as an input (the octahedron is extra)
MaxDig == 2

(***************************************************************************)
(* Constants of mne.io.constants.FIFF used by the source                   *)
(***************************************************************************)
FIFFV_POINT_EXTRA == 4
FIFFV_COORD_DEVICE == 1
FIFFV_COORD_HEAD == 4

(***************************************************************************)
(* Small helpers                                                           *)
(***************************************************************************)
RECURSIVE SeqMax(_), SeqMin(_), SeqSum(_)
SeqMax(s) ==
  IF Len(s) = 1 THEN s[1]
  ELSE LET m == SeqMax(Tail(s)) IN IF s[1] > m THEN s[1] ELSE m

SeqMin(s) ==
  IF Len(s) = 1 THEN s[1]
  ELSE LET m == SeqMin(Tail(s)) IN IF s[1] < m THEN s[1] ELSE m

SeqSum(s) ==
  IF s = <<>> THEN 0 ELSE s[1] + SeqSum(Tail(s))

Column(m, i) == [k \in 1..Len(m) |-> m[k][i]]

\* floor of the square root, by bisection on [lo, hi]
RECURSIVE SqrtBetween(_, _, _)
SqrtBetween(n, lo, hi) ==
  IF lo >= hi THEN lo
  ELSE LET mid == (lo + hi + 1) \div 2
       IN IF mid * mid <= n THEN SqrtBetween(n, mid, hi)
                            ELSE SqrtBetween(n, lo, mid - 1)

Sqrt(n) == SqrtBetween(n, 0, 4096)

(***************************************************************************)
(* fit_sphere_to_headshape                                                 *)
(***************************************************************************)
NoLim == [kind |-> "none", lo |-> 0, hi |-> 0]
Pair(lo, hi) == [kind |-> "pair", lo |-> lo, hi |-> hi]
Scalar(v) == [kind |-> "scalar", lo |-> v, hi |-> v]

\* the frontal points (nose etc.) the list comprehension of lines 94-96 drops
Frontal(r) == r[3] < 0 /\ r[2] > 0

\* variant: the frontal exclusion left out
KindFilterNoFrontal(dig) ==
  LET keep(p) == p.kind = FIFFV_POINT_EXTRA
      sel == SelectSeq(dig, keep)
  IN [k \in 1..Len(sel) |-> sel[k].r]

\* hsp = [p['r'] for p in info['dig'] if kind == EXTRA and not (z < 0 and y > 0)]
KindFilter(dig) ==
  LET keep(p) == p.kind = FIFFV_POINT_EXTRA /\ ~Frontal(p.r)
      sel == SelectSeq(dig, keep)
  IN [k \in 1..Len(sel) |-> sel[k].r]

\* variant: closed comparisons (>=, <=)
RangeFilterClosed(hsp, axis, lim) ==
  LET keep(r) == r[axis] >= lim.lo /\ r[axis] <= lim.hi
  IN SelectSeq(hsp, keep)

\* variant: the scan starts at the second element
RangeFilterSkipFirst(hsp, axis, lim) ==
  LET keep(r) == r[axis] > lim.lo /\ r[axis] < lim.hi
  IN IF hsp = <<>> THEN hsp ELSE SelectSeq(Tail(hsp), keep)

\* hsp = [p for p in hsp if (p[axis] > lim[0] and p[axis] < lim[1])]
RangeFilter(hsp, axis, lim) ==
  LET keep(r) == r[axis] > lim.lo /\ r[axis] < lim.hi
  IN SelectSeq(hsp, keep)

\* lim[0] is evaluated once per element of hsp: a limit that is not a
\* sequence raises TypeError as soon as hsp has an element
Subscriptable(lim) == lim.kind = "pair"

LimRaises(hsp, lim) == lim.kind # "none" /\ hsp # <<>> /\ ~Subscriptable(lim)

ApplyLim(hsp, axis, lim) ==
  IF lim.kind = "none" THEN hsp ELSE RangeFilter(hsp, axis, lim)

\* 1e3 * np.array(hsp): metres to millimetres
ToMM(c) == 100 * c

ScaleToMM(hsp) == [k \in 1..Len(hsp) |-> [i \in 1..3 |-> ToMM(hsp[k][i])]]

\* variant: center_init z is max(z), radius_init not subtracted
InitialGuessNoShift(mm) ==
  LET xradius == (SeqMax(Column(mm, 1)) - SeqMin(Column(mm, 1))) \div 2
      yradius == (SeqMax(Column(mm, 2)) - SeqMin(Column(mm, 2))) \div 2
      radius_init == (xradius + yradius) \div 2
  IN <<0, 0, SeqMax(Column(mm, 3)), radius_init>>

\* x0 = np.r_[center_init, radius_init]
InitialGuess(mm) ==
  LET xradius == (SeqMax(Column(mm, 1)) - SeqMin(Column(mm, 1))) \div 2
      yradius == (SeqMax(Column(mm, 2)) - SeqMin(Column(mm, 2))) \div 2
      radius_init == (xradius + yradius) \div 2
  IN <<0, 0, SeqMax(Column(mm, 3)) - radius_init, radius_init>>

Dist(p, x) ==
  Sqrt((p[1] - x[1]) * (p[1] - x[1]) + (p[2] - x[2]) * (p[2] - x[2])
       + (p[3] - x[3]) * (p[3] - x[3]))

\* cost_fun: sum over the points of (|p - x[:3]| - x[3]) ** 2
cost_fun(x, mm) ==
  SeqSum([k \in 1..Len(mm) |-> (Dist(mm[k], x) - x[4]) * (Dist(mm[k], x) - x[4])])

\* the points a line search along one of Powell's initial directions (the
\* coordinate axes of x) may probe, 10 mm either side of x0
ProbeSteps == {-100, 100}

Probes(x0) ==
  {x0} \cup {[x0 EXCEPT ![i] = x0[i] + d] : i \in 1..4, d \in ProbeSteps}

\* optimize.fmin_powell is a descent method: whichever point it returns costs
\* no more than its starting point x0
fmin_powell(x0, mm) ==
  {x \in Probes(x0) : cost_fun(x, mm) <= cost_fun(x0, mm)}

\* variant: only trans['to'] is looked at
TransOkAnyFrom(trans) == trans.to = FIFFV_COORD_HEAD

\* not (trans['from'] != DEVICE or trans['to'] != HEAD)
TransOk(trans) ==
  trans.from = FIFFV_COORD_DEVICE /\ trans.to = FIFFV_COORD_HEAD

\* 1e3 * np.dot(linalg.inv(trans), np.r_[1e-3 * origin_head, 1.0])[:3] for a
\* transform that translates by trans.t: the inverse translates by -trans.t
OriginDevice(origin_head, trans) ==
  [i \in 1..3 |-> origin_head[i] - ToMM(trans.t[i])]

Origin0 == <<0, 0, 0>>

Raised(e, hsp, optimized) ==
  [err |-> e, returned |-> FALSE, hsp |-> hsp, optimized |-> optimized,
   x0 |-> <<0, 0, 0, 0>>, radius |-> 0,
   origin_head |-> Origin0, origin_device |-> Origin0]

Returned(hsp, x0, x, trans) ==
  [err |-> "none", returned |-> TRUE, hsp |-> hsp, optimized |-> TRUE,
   x0 |-> x0, radius |-> x[4],
   origin_head |-> <<x[1], x[2], x[3]>>,
   origin_device |-> OriginDevice(<<x[1], x[2], x[3]>>, trans)]

\* variant: no len(hsp) == 0 test, no transform test
FitNoEmptyCheck(info, ylim, zlim) ==
  LET hsp1 == KindFilter(info.dig)
      hsp2 == ApplyLim(hsp1, 2, ylim)
      hsp3 == ApplyLim(hsp2, 3, zlim)
  IN IF hsp3 = <<>>
       THEN {Returned(hsp3, <<0, 0, 0, 0>>, <<0, 0, 0, 0>>, info.dev_head_t)}
       ELSE {Returned(hsp3, InitialGuess(ScaleToMM(hsp3)), x, info.dev_head_t) :
               x \in fmin_powell(InitialGuess(ScaleToMM(hsp3)), ScaleToMM(hsp3))}

\* the outcomes of fit_sphere_to_headshape(info, ylim, zlim)
Fit(info, ylim, zlim) ==
  LET hsp1 == KindFilter(info.dig)
      hsp2 == ApplyLim(hsp1, 2, ylim)
      hsp3 == ApplyLim(hsp2, 3, zlim)
      mm == ScaleToMM(hsp3)
      x0 == InitialGuess(mm)
  IN IF LimRaises(hsp1, ylim) THEN {Raised("TypeError", <<>>, FALSE)}
     ELSE IF LimRaises(hsp2, zlim) THEN {Raised("TypeError", <<>>, FALSE)}
     ELSE IF Len(hsp3) = 0 THEN {Raised("ValueError", <<>>, FALSE)}
     ELSE IF ~TransOk(info.dev_head_t)
            THEN {Raised("RuntimeError", hsp3, TRUE)}
     ELSE {Returned(hsp3, x0, x, info.dev_head_t) : x \in fmin_powell(x0, mm)}

(***************************************************************************)
(* Inputs of fit_sphere_to_headshape                                       *)
(***************************************************************************)
\* coordinates in centimetres: a frontal point, points on, inside and outside
\* the limits below
DigCoords ==
  {<<5, 0, 10>>, <<-5, 0, 10>>, <<0, 5, -5>>, <<0, -5, -5>>, <<0, 5, 10>>,
   <<0, 0, 15>>}

\* a point kind other than FIFFV_POINT_EXTRA (FIFFV_POINT_CARDINAL)
NonExtraKinds == {1}

DigPoints ==
  {[kind |-> FIFFV_POINT_EXTRA, r |-> r] : r \in DigCoords}
    \cup {[kind |-> k, r |-> <<0, 5, 10>>] : k \in NonExtraKinds}

DigLists == UNION {[1..n -> DigPoints] : n \in 0..MaxDig}

\* the six vertices of the octahedron of radius 50 mm centred at (0, 0, 100 mm)
Octahedron ==
  [k \in 1..6 |->
     [kind |-> FIFFV_POINT_EXTRA,
      r |-> <<<<5, 0, 10>>, <<-5, 0, 10>>, <<0, 5, 10>>, <<0, -5, 10>>,
              <<0, 0, 5>>, <<0, 0, 15>>>>[k]]]

YLims == {NoLim, Pair(-5, 5), Pair(0, 10), Pair(-10, 10)}
ZLims == {NoLim, Pair(-5, 15), Pair(0, 20)}

Translations == {<<0, 0, 0>>, <<1, -2, 4>>}

Transforms ==
  {[from |-> f[1], to |-> f[2], t |-> t] :
     f \in {<<FIFFV_COORD_DEVICE, FIFFV_COORD_HEAD>>,
            <<FIFFV_COORD_HEAD, FIFFV_COORD_DEVICE>>,
            <<FIFFV_COORD_HEAD, FIFFV_COORD_HEAD>>},
     t \in Translations}

FitInputs ==
  {[info |-> [dig |-> d, dev_head_t |-> tr], ylim |-> yl, zlim |-> zl] :
     d \in DigLists, tr \in Transforms, yl \in YLims, zl \in ZLims}
    \cup
  {[info |-> [dig |-> Octahedron, dev_head_t |-> tr], ylim |-> NoLim,
    zlim |-> NoLim] : tr \in Transforms}

NoArgs ==
  [info |-> [dig |-> <<>>,
             dev_head_t |-> [from |-> FIFFV_COORD_DEVICE,
                             to |-> FIFFV_COORD_HEAD, t |-> Origin0]],
   ylim |-> NoLim, zlim |-> NoLim]

NoRet == Raised("none", <<>>, FALSE)

(***************************************************************************)
(* The Maxfilter object: build_maxfilter_cmd                               *)
(***************************************************************************)
\* an optional argument: None is the empty set, a value v is {v}
None == {}
Some(v) == {v}
The(o) == CHOOSE v \in o : TRUE

\* a command is a sequence of words; a word is its text and the numbers
\* written into it
Tok(s) == [t |-> s, v |-> <<>>]
Fmt(s, v) == [t |-> s, v |-> v]

\* the recordings Raw(in_fname) can open, and their measurement info
Recordings == {"octahedron.fif", "nodig.fif"}

InFiles == Recordings \cup {"missing.fif"}

RawInfo(in_fname) ==
  IF in_fname = "octahedron.fif"
    THEN [dig |-> Octahedron,
          dev_head_t |-> [from |-> FIFFV_COORD_DEVICE,
                          to |-> FIFFV_COORD_HEAD, t |-> <<1, -2, 4>>]]
    ELSE [dig |-> <<[kind |-> CHOOSE k \in NonExtraKinds : TRUE,
                     r |-> <<0, 5, 10>>]>>,
          dev_head_t |-> [from |-> FIFFV_COORD_DEVICE,
                          to |-> FIFFV_COORD_HEAD, t |-> Origin0]]

\* the defaults of build_maxfilter_cmd's signature
BuildDefaults ==
  [in_fname |-> "octahedron.fif", out_fname |-> "out.fif",
   origin |-> [kind |-> "str", s |-> "0 0 40", v |-> Origin0],
   frame |-> "head", bad |-> None, autobad |-> "off", skip |-> None,
   force |-> FALSE, st |-> FALSE,
   st_buflen |-> [type |-> "float", val |-> 16], st_corr |-> "0.9600",
   mv_trans |-> None, movecomp |-> "False", mv_headpos |-> FALSE,
   mv_hp |-> None, mv_hpisubt |-> None, hpicons |-> TRUE, linefreq |-> None,
   cal |-> None, ctc |-> None, mx_args |-> "",
   maxfilter_bin |-> "/neuro/bin/util/maxfilter", logfile |-> None]

OriginNone == [kind |-> "none", s |-> "", v |-> Origin0]
OriginFalse == [kind |-> "false", s |-> "", v |-> Origin0]
OriginVec(v) == [kind |-> "vec", s |-> "", v |-> v]

\* lines 246-264: the origin the command is formatted with, or the exception
\* that ends the call.  ylim=0.070 is a float (7 cm); '{.1f}'.format(r) of line
\* 252 raises AttributeError whenever the fit returns, so lines 253-264 never
\* run
EstimateOrigin(a) ==
  IF a.origin.kind # "none" THEN {[err |-> "none", origin |-> a.origin]}
  ELSE IF a.in_fname \notin Recordings
         THEN {[err |-> "IOError", origin |-> a.origin]}
  ELSE {[err |-> IF out.returned THEN "AttributeError" ELSE out.err,
         origin |-> a.origin] :
          out \in Fit(RawInfo(a.in_fname), Scalar(7), NoLim)}

\* lines 267-277
FormatHead(a, origin) ==
  IF origin.kind = "false"
    THEN <<Tok(a.maxfilter_bin), Tok("-f"), Tok(a.in_fname), Tok("-o"),
           Tok(a.out_fname), Tok("-v")>>
    ELSE <<Tok(a.maxfilter_bin), Tok("-f"), Tok(a.in_fname), Tok("-o"),
           Tok(a.out_fname), Tok("-frame"), Tok(a.frame), Tok("-origin"),
           IF origin.kind = "str" THEN Tok(origin.s)
                                  ELSE Fmt("{:.1f} {:.1f} {:.1f}", origin.v),
           Tok("-v")>>

\* lines 279-294: bad is a list of channel names, 'MEG' prefixes are cut
FormatBad(a) ==
  (IF a.bad = None THEN <<>> ELSE <<Tok("-bad")>> \o The(a.bad))
    \o <<Tok("-autobad"), Tok(a.autobad)>>
    \o (IF a.skip = None THEN <<>> ELSE <<Tok("-skip"), Tok(The(a.skip))>>)
    \o (IF a.force THEN <<Tok("-force")>> ELSE <<>>)

\* ' {:d} '.format(st_buflen) of line 301 accepts integers only
StRaises(a) == a.st /\ a.st_buflen.type # "int"

\* lines 299-302
FormatSt(a) ==
  IF a.st
    THEN <<Tok("-st"), Fmt("{:d}", <<a.st_buflen.val>>), Tok("-corr"),
           Tok(a.st_corr)>>
    ELSE <<>>

\* lines 304-336
FormatTail(a) ==
  (IF a.mv_trans = None THEN <<>> ELSE <<Tok("-trans"), Tok(The(a.mv_trans))>>)
    \o (IF a.movecomp = "False" THEN <<>>
        ELSE <<Tok("-movecomp")>>
               \o (IF a.movecomp = "inter" THEN <<Tok("inter")>> ELSE <<>>)
               \o (IF a.mv_headpos THEN <<Tok("-headpos")>> ELSE <<>>)
               \o (IF a.mv_hp = None THEN <<>>
                   ELSE <<Tok("-hp"), Tok(The(a.mv_hp))>>)
               \o (IF a.mv_hpisubt = None THEN <<>>
                   ELSE <<Tok("hpisubt"), Tok(The(a.mv_hpisubt))>>)
               \o (IF a.hpicons THEN <<Tok("-hpicons")>> ELSE <<>>))
    \o (IF a.linefreq = None THEN <<>>
        ELSE <<Tok("-linefreq"), Fmt("{:d}", <<The(a.linefreq)>>)>>)
    \o (IF a.cal = None THEN <<>> ELSE <<Tok("-cal"), Tok(The(a.cal))>>)
    \o (IF a.ctc = None THEN <<>> ELSE <<Tok("-ctc"), Tok(The(a.ctc))>>)
    \o (IF a.mx_args = "" THEN <<>> ELSE <<Tok(a.mx_args)>>)
    \o (IF a.logfile = None THEN <<>>
        ELSE <<Tok("|"), Tok("tee"), Tok(The(a.logfile))>>)

\* the outcomes of build_maxfilter_cmd's body: the exception raised, if any,
\* and the local cmd as far as it was built
BuildResults(a) ==
  {IF o.err # "none" THEN [err |-> o.err, cmd |-> <<>>]
   ELSE IF StRaises(a)
          THEN [err |-> "ValueError",
                cmd |-> FormatHead(a, o.origin) \o FormatBad(a) \o <<Tok("-st")>>]
   ELSE [err |-> "none",
         cmd |-> FormatHead(a, o.origin) \o FormatBad(a) \o FormatSt(a)
                   \o FormatTail(a)] :
     o \in EstimateOrigin(a)}

\* variant: self.cmd assigned while the command is being built
StoreCmdEarly(r, old) == r.cmd

\* self.cmd = cmd is the last statement (line 338)
StoreCmd(r, old) == IF r.err = "none" THEN r.cmd ELSE old

\* a call that sets every option
AllOptions ==
  [BuildDefaults EXCEPT !.bad = Some(<<Tok("0111"), Tok("12")>>),
                        !.autobad = "on", !.skip = Some("0 30 120 150"),
                        !.force = TRUE, !.st = TRUE,
                        !.st_buflen = [type |-> "int", val |-> 16],
                        !.mv_trans = Some("default"), !.movecomp = "inter",
                        !.mv_headpos = TRUE, !.mv_hp = Some("hp.txt"),
                        !.mv_hpisubt = Some("amp"), !.linefreq = Some(50),
                        !.cal = Some("sss_cal.dat"), !.ctc = Some("ct_sparse.fif"),
                        !.mx_args = "-format short",
                        !.logfile = Some("mf.log")]

BuildInputs ==
  {[BuildDefaults EXCEPT !.in_fname = f, !.origin = o, !.frame = fr,
                         !.st = st[1], !.st_buflen = st[2]] :
     f \in InFiles,
     o \in {OriginNone, OriginFalse, BuildDefaults.origin, OriginVec(<<0, 0, 400>>)},
     fr \in {"head", "device"},
     st \in {<<FALSE, BuildDefaults.st_buflen>>, <<TRUE, BuildDefaults.st_buflen>>,
             <<TRUE, [type |-> "int", val |-> 16]>>}}
    \cup {AllOptions}

(***************************************************************************)
(* The Maxfilter object: submit_to_isis                                    *)
(***************************************************************************)
MaxCores == 12

PyInt(n) == [type |-> "int", val |-> n]
PyFloat(n) == [type |-> "float", val |-> n]
PyBool(n) == [type |-> "bool", val |-> n]

\* variant: the type of n_jobs is not looked at
JobsErrorNoTypeCheck(n_jobs) == n_jobs.val > MaxCores \/ n_jobs.val < 1

\* lines 362-365
JobsError(n_jobs) ==
  n_jobs.val > MaxCores \/ n_jobs.val < 1 \/ n_jobs.type # "int"

DefaultScript ==
  "            /usr/local/common/meeg-cfin/configurations/bin/submit_to_isis"

Script(a) == IF a.submit_script = None THEN DefaultScript ELSE The(a.submit_script)

\* os.system(submit_script + ' 2>&1 > /dev/null')
ProbeCmd(a) == <<Tok(Script(a)), Tok("2>&1 > /dev/null")>>

\* the wait status of a process that exited with code c
Exited(c) == c * 256

\* os.system(...) >> 8 == 127
NotFound(status) == status \div 256 = 127

\* ' '.join((submit_script, '{:d}'.format(n_jobs), self.cmd))
SubmitCmd(a, c) == <<Tok(Script(a)), Fmt("{:d}", <<a.n_jobs.val>>)>> \o c

\* variant: only the exit code (st >> 8) is looked at
SubmitFailedExitCodeOnly(st) == st \div 256 # 0

\* if st != 0: raise RuntimeError
SubmitFailed(st) == st # 0

\* the outcome of submit_to_isis: the exception raised, if any, the external
\* commands started, in order, and whether the command was printed
SubmitResult(a, c) ==
  IF c = <<>> THEN [err |-> "NameError", procs |-> <<>>, printed |-> FALSE]
  ELSE IF JobsError(a.n_jobs)
         THEN [err |-> "ValueError", procs |-> <<>>, printed |-> FALSE]
  ELSE IF NotFound(a.probe)
         THEN [err |-> "NameError", procs |-> <<ProbeCmd(a)>>, printed |-> FALSE]
  ELSE IF ~a.fake
         THEN [err |-> IF SubmitFailed(a.st) THEN "RuntimeError" ELSE "none",
               procs |-> <<ProbeCmd(a), SubmitCmd(a, c)>>, printed |-> FALSE]
  ELSE [err |-> "none", procs |-> <<ProbeCmd(a)>>, printed |-> TRUE]

\* the wait statuses drawn for os.system: exit 0, exit 1 and exit 127 (command
\* not found) for the probe; exit 0, exit 1 and killed by signal 9 for the job

SubmitInputs ==
  [n_jobs : {PyInt(0), PyInt(1), PyInt(MaxCores), PyInt(MaxCores + 1), PyFloat(2),
             PyBool(1)},
   fake : BOOLEAN,
   submit_script : {None, Some("./submit.sh")},
   probe : {Exited(0), Exited(1), Exited(127)},
   st : {Exited(0), Exited(1), 9}]

NoSubmitArgs ==
  [n_jobs |-> PyInt(1), fake |-> FALSE, submit_script |-> None,
   probe |-> Exited(0), st |-> Exited(0)]

NoCall == [op |-> "init", err |-> "none", printed |-> FALSE]

\* self.cmd = ''  (No command defined at init)
InitObject ==
  /\ cmd = <<>>
  /\ procs = <<>>
  /\ last = NoCall
  /\ bargs = BuildDefaults
  /\ sargs = NoSubmitArgs
  /\ built = FALSE

\* procs holds the external commands the most recent call started; built
\* records that some build_maxfilter_cmd call has completed
BuildMaxfilterCmd ==
  \E a \in BuildInputs : \E r \in BuildResults(a) :
    /\ cmd' = StoreCmd(r, cmd)
    /\ procs' = <<>>
    /\ last' = [op |-> "build", err |-> r.err, printed |-> FALSE]
    /\ bargs' = a
    /\ sargs' = NoSubmitArgs
    /\ built' = (built \/ r.err = "none")
    /\ UNCHANGED <<args, ret, pc>>

SubmitToIsis ==
  \E a \in SubmitInputs :
    LET r == SubmitResult(a, cmd)
    IN /\ procs' = r.procs
       /\ last' = [op |-> "submit", err |-> r.err, printed |-> r.printed]
       /\ sargs' = a
       /\ bargs' = BuildDefaults
       /\ UNCHANGED <<args, ret, pc, cmd, built>>

InitMaxfilter ==
  /\ args = NoArgs
  /\ ret = NoRet
  /\ pc = "idle"
  /\ InitObject

NextMaxfilter == BuildMaxfilterCmd \/ SubmitToIsis

SpecMaxfilter == InitMaxfilter /\ [][NextMaxfilter]_vars

(***************************************************************************)
(* Specification of one call of fit_sphere_to_headshape                    *)
(***************************************************************************)
Init ==
  /\ args \in FitInputs
  /\ ret = NoRet
  /\ pc = "call"
  /\ InitObject

FitSphere ==
  /\ pc = "call"
  /\ ret' \in Fit(args.info, args.ylim, args.zlim)
  /\ pc' = "done"
  /\ UNCHANGED <<args, cmd, procs, last, bargs, sargs, built>>

Next == FitSphere

Spec == Init /\ [][Next]_vars

(***************************************************************************)
(* Properties of fit_sphere_to_headshape, checked under Spec               *)
(***************************************************************************)
InLim(v, lim) == lim.kind = "none" \/ (lim.lo < v /\ v < lim.hi)

\* a digitisation point that survives the filtering of the call in progress
Survives(p) ==
  /\ p.kind = FIFFV_POINT_EXTRA
  /\ ~(p.r[3] < 0 /\ p.r[2] > 0)
  /\ InLim(p.r[2], args.ylim)
  /\ InLim(p.r[3], args.zlim)

Survivors ==
  LET sel == SelectSeq(args.info.dig, Survives)
  IN [k \in 1..Len(sel) |-> sel[k].r]

TagsMismatch ==
  \/ args.info.dev_head_t.from # FIFFV_COORD_DEVICE
  \/ args.info.dev_head_t.to # FIFFV_COORD_HEAD

\* C1: when no point survives the filtering, the call fails with ValueError
\* before the optimizer is invoked and returns no result
C1_EmptyRaisesValueError ==
  (pc = "done" /\ Survivors = <<>>)
    => (ret.err = "ValueError" /\ ~ret.optimized /\ ~ret.returned)

C1_Witness ==
  /\ pc = "done"
  /\ ret.err = "ValueError"
  /\ KindFilter(args.info.dig) # <<>>
  /\ TagsMismatch

NotFrontal(p) == ~(p.r[3] < 0 /\ p.r[2] > 0)

\* C2: no point with z < 0 and y > 0 is handed to the initial guess and the
\* optimizer, and the outcome is an outcome of the call on the digitisation
\* list with those points removed
C2_FrontalNeverFitted ==
  pc = "done" =>
    /\ \A k \in 1..Len(ret.hsp) : ~(ret.hsp[k][3] < 0 /\ ret.hsp[k][2] > 0)
    /\ ret \in Fit([args.info EXCEPT !.dig = SelectSeq(args.info.dig, NotFrontal)],
                   args.ylim, args.zlim)

C2_Witness ==
  /\ pc = "done"
  /\ ret.returned
  /\ \E k \in 1..Len(args.info.dig) :
       /\ args.info.dig[k].kind = FIFFV_POINT_EXTRA
       /\ ~NotFrontal(args.info.dig[k])
       /\ InLim(args.info.dig[k].r[2], args.ylim)
       /\ InLim(args.info.dig[k].r[3], args.zlim)

\* C3 as stated: a transform not tagged device -> head makes the call fail
\* with RuntimeError, whatever the point set and the range filters
C3_MismatchAlwaysRuntimeError ==
  (pc = "done" /\ TagsMismatch) => (ret.err = "RuntimeError" /\ ~ret.returned)

\* C3 amended: a transform not tagged device -> head makes the call fail and
\* return no result: with RuntimeError when a point survives the filtering,
\* with ValueError when none does
C3_MismatchNeverReturns ==
  (pc = "done" /\ TagsMismatch) =>
    /\ ~ret.returned
    /\ ret.err = IF Survivors = <<>> THEN "ValueError" ELSE "RuntimeError"

C3_Witness ==
  /\ pc = "done"
  /\ TagsMismatch
  /\ ret.err = "RuntimeError"
  /\ args.ylim.kind = "pair"

\* the range filters applied z first, then y
FilterZThenY(hsp) == ApplyLim(ApplyLim(hsp, 3, args.zlim), 2, args.ylim)

\* C4: the fitted point set is the input-order subsequence of the surviving
\* points, range bounds excluded, whichever range filter is applied first
C4_FittedSetIsSurvivors ==
  pc = "done" =>
    /\ IF ret.optimized THEN ret.hsp = Survivors ELSE Survivors = <<>>
    /\ FilterZThenY(KindFilter(args.info.dig)) = Survivors

C4_Witness ==
  /\ pc = "done"
  /\ ret.returned
  /\ Len(ret.hsp) = 1
  /\ \E k \in 1..Len(args.info.dig) :
       /\ args.info.dig[k].kind = FIFFV_POINT_EXTRA
       /\ args.ylim.kind = "pair"
       /\ args.info.dig[k].r[2] = args.ylim.lo
  /\ \E k \in 1..Len(args.info.dig) :
       /\ args.info.dig[k].kind = FIFFV_POINT_EXTRA
       /\ args.zlim.kind = "pair"
       /\ args.info.dig[k].r[3] = args.zlim.hi

\* the range filters of the call in progress, y first, then z
FilterYThenZ(hsp) == ApplyLim(ApplyLim(hsp, 2, args.ylim), 3, args.zlim)

AllCoords == [k \in 1..Len(args.info.dig) |-> args.info.dig[k].r]

\* C5: filtering an already filtered set with the same limits returns it
C5_FilterIdempotent ==
  /\ FilterYThenZ(FilterYThenZ(AllCoords)) = FilterYThenZ(AllCoords)
  /\ (pc = "done" /\ ret.optimized) => FilterYThenZ(ret.hsp) = ret.hsp

C5_Witness ==
  /\ pc = "done"
  /\ ret.optimized
  /\ args.ylim.kind = "pair"
  /\ args.zlim.kind = "pair"
  /\ Len(ret.hsp) >= 1
  /\ Len(FilterYThenZ(AllCoords)) < Len(AllCoords)

IsOctahedronCall ==
  /\ args.info.dig = Octahedron
  /\ args.ylim = NoLim
  /\ args.zlim = NoLim
  /\ ~TagsMismatch

\* C6: for the octahedron of radius 50 mm centred at (0, 0, 100 mm) and a
\* device -> head translation t the call returns radius 50 mm, centre
\* (0, 0, 100 mm) in head coordinates and that centre minus t in device
\* coordinates; the initial guess is that sphere and has cost 0
C6_OctahedronFit ==
  (pc = "done" /\ IsOctahedronCall) =>
    /\ ret.returned
    /\ ret.radius = 500
    /\ ret.origin_head = <<0, 0, 1000>>
    /\ \A i \in 1..3 :
         ret.origin_device[i] = ret.origin_head[i] - 100 * args.info.dev_head_t.t[i]
    /\ ret.x0 = <<0, 0, 1000, 500>>
    /\ cost_fun(ret.x0, ScaleToMM(ret.hsp)) = 0

C6_Witness ==
  /\ pc = "done"
  /\ IsOctahedronCall
  /\ ret.returned
  /\ args.info.dev_head_t.t = <<1, -2, 4>>
  /\ ret.origin_device = <<-100, 200, 600>>

(***************************************************************************)
(* Properties of the Maxfilter object, checked under SpecMaxfilter         *)
(***************************************************************************)
\* C7: a submit_to_isis call with fake=True starts no external process
C7_FakeStartsNothing ==
  (last.op = "submit" /\ sargs.fake) => procs = <<>>

JobsValid ==
  sargs.n_jobs.type = "int" /\ 1 <= sargs.n_jobs.val /\ sargs.n_jobs.val <= 12

CmdKept ==
  /\ last'.op = "submit" => cmd' = cmd
  /\ (last'.op = "build" /\ last'.err # "none") => cmd' = cmd

ScriptFound == sargs.probe \div 256 # 127

ExpectedSubmission ==
  <<[t |-> IF sargs.submit_script = {} THEN DefaultScript
           ELSE CHOOSE x \in sargs.submit_script : TRUE,
     v |-> <<>>],
    [t |-> "{:d}", v |-> <<sargs.n_jobs.val>>]>> \o cmd

GuardsPass ==
  /\ last.op = "submit"
  /\ ~sargs.fake
  /\ cmd # <<>>
  /\ JobsValid
  /\ ScriptFound

\* C9: a non-fake submit_to_isis call whose guards pass issues
\* '<submit_script> <n_jobs> <cmd>' exactly once, raises RuntimeError exactly
\* when that command's status is not 0, and leaves cmd unchanged
C9_SubmitsOnceAndReportsStatus ==
  /\ [](GuardsPass =>
          /\ Cardinality({k \in 1..Len(procs) : procs[k] = ExpectedSubmission}) = 1
          /\ (last.err = "RuntimeError") <=> (sargs.st # 0)
          /\ sargs.st = 0 => last.err = "none")
  /\ [][last'.op = "submit" => cmd' = cmd]_vars

C9_Witness ==
  /\ GuardsPass
  /\ sargs.st = 9
  /\ last.err = "RuntimeError"
  /\ sargs.n_jobs.val = 12

HasEligiblePoint(info) ==
  \E k \in 1..Len(info.dig) :
    /\ info.dig[k].kind = FIFFV_POINT_EXTRA
    /\ ~(info.dig[k].r[3] < 0 /\ info.dig[k].r[2] > 0)

EstimatedOriginCall ==
  /\ last.op = "build"
  /\ bargs.origin.kind = "none"
  /\ bargs.in_fname \in Recordings
  /\ HasEligiblePoint(RawInfo(bargs.in_fname))
  /\ RawInfo(bargs.in_fname).dev_head_t.from = FIFFV_COORD_DEVICE
  /\ RawInfo(bargs.in_fname).dev_head_t.to = FIFFV_COORD_HEAD
  /\ ~(bargs.st /\ bargs.st_buflen.type # "int")

\* C10: build_maxfilter_cmd with origin=None on a recording with an eligible
\* head-shape point and a device -> head transform completes and sets cmd to a
\* command carrying '-frame <frame> -origin <x y z>' with the fitted centre
C10_OriginEstimated ==
  EstimatedOriginCall =>
    /\ last.err = "none"
    /\ \E k \in 1..Len(cmd) - 3 :
         /\ cmd[k] = [t |-> "-frame", v |-> <<>>]
         /\ cmd[k + 1] = [t |-> bargs.frame, v |-> <<>>]
         /\ cmd[k + 2] = [t |-> "-origin", v |-> <<>>]
         /\ cmd[k + 3].t = "{:.1f} {:.1f} {:.1f}"

====
